---- MODULE Spec2Model ----
(***************************************************************************)
(* Resumable document workflow with a human-in-the-loop approval:          *)
(*   - HitlCoordinator and the workflow_small graph (workflow_small.py)    *)
(*   - the SSE bridge: start_workflow, stream_workflow_events and its      *)
(*     event_generator, submit_approval (workflow_api.py)                  *)
(*   - the CLI driver run_once (main.py)                                   *)
(* Three specifications share the definitions of the handlers:             *)
(*   Spec            the SSE bridge serving sessions and streams           *)
(*   SpecCli         run_once driving one workflow_small run               *)
(*   SpecCoordinator the two HitlCoordinator handlers applied to inputs    *)
(* and SpecCompliance applies ComplianceAdapter.on_compliance of           *)
(* workflow_one.py to compliance texts.                                    *)
(***************************************************************************)
EXTENDS Integers, Sequences, FiniteSets, TLC

(***************************************************************************)
(* Bounds of the model.                                                    *)
(***************************************************************************)
\* sessions start_workflow may create, and event streams (calls of
\* stream_workflow_events that return a generator), under Spec
MaxSessions == 1
MaxStreams == 1
\* the same under SpecConcurrent, where streams run side by side
MaxConcurrentSessions == 2
MaxConcurrentStreams == 2
\* polls of the approval wait loop; workflow_api.py:207 sets 300, the model
\* scales the budget down and every formula is stated in terms of max_wait
max_wait == 3
\* invocations of prepare_request in SpecCoordinator
MaxSuspensions == 2

(***************************************************************************)
(* Values.                                                                 *)
(***************************************************************************)
\* Python's None
None == "<None>"
\* exception text of a failing agent call
AgentError == "agent call failed"
\* what run_extractor_20_agent returns
ExtractedText == "extracted text"
\* texts run_compliance_20_agent may return: empty (not JSON), a JSON object
\* reporting the document compliant, a JSON object asking for review
CompliantJson == "{compliance: {is_compliant: true}, needs_human_review: false}"
ReviewJson == "{compliance: {is_compliant: false}, needs_human_review: true}"
ComplianceTexts == {"", CompliantJson, ReviewJson}
\* document locators given to start_workflow
DocumentUris == {"doc-1"}
\* comments the approving user may give (None: the optional field is left out)
Comments == {None, "", "looks wrong"}
\* lines a user may type at the prompts of run_once
AnswerLines == {"y", "Y", "n"}
CommentLines == {"", "looks wrong", "fine as it is"}

\* a faulty variant of ApprovalIdOf that hands out one id again and again
ApprovalIdOf_reused(w) == 201

\* uuid.uuid4() of prepare_request in workflow w, and the request id the
\* RequestInfoExecutor of workflow w generates: fresh, distinct values
ApprovalIdOf(w) == 200 + w
RequestIdOf(w) == 100 + w

\* a request id / approval id that was never generated
UnknownId == RequestIdOf(0) - 1

\* the empty dict
EmptyMap == <<>>

\* dict without one key
Remove(d, k) == [x \in (DOMAIN d) \ {k} |-> d[x]]
\* dict with d[k] = v
Put(d, k, v) == [x \in (DOMAIN d) \cup {k} |-> IF x = k THEN v ELSE d[x]]

(***************************************************************************)
(* HitlCoordinator (workflow_small.py)                                     *)
(***************************************************************************)
\* json.loads(prev) succeeds with an object
IsJsonObject(text) == text \in {CompliantJson, ReviewJson}

\* the uri prepare_request derives from its input
SourceUriOf(prev) == IF IsJsonObject(prev) THEN "n/a" ELSE prev

\* the preview prepare_request derives from its input
PreviewOf(prev) ==
    IF IsJsonObject(prev) THEN "No preview"
    ELSE "Testing HITL for document: " \o prev

\* a faulty variant of prepare_request that stores nothing and sends its
\* input round the cycle, back to itself
prepare_request_cycling(store, rid, prev) ==
    [ store |-> store, sent |-> prev,
      target_id |-> "hitl_coordinator.prepare_request" ]

\* a faulty variant of prepare_request whose ApprovalRequest is not addressed
\* to human_review_exec and reaches the final node
prepare_request_untargeted(store, rid, prev) ==
    [ store |-> Put(store, rid, [payload |-> prev,
                                 source_uri |-> SourceUriOf(prev),
                                 preview |-> PreviewOf(prev)]),
      sent |-> [approval_id |-> rid,
                title |-> "Manual approval required",
                message |-> "Please review the extracted result.",
                source_uri |-> SourceUriOf(prev),
                preview |-> PreviewOf(prev)],
      target_id |-> "final_result_placeholder" ]

\* prepare_request: caches the payload under rid and sends an ApprovalRequest
\* to human_review_exec only
prepare_request(store, rid, prev) ==
    [ store |-> Put(store, rid, [payload |-> prev,
                                 source_uri |-> SourceUriOf(prev),
                                 preview |-> PreviewOf(prev)]),
      sent |-> [approval_id |-> rid,
                title |-> "Manual approval required",
                message |-> "Please review the extracted result.",
                source_uri |-> SourceUriOf(prev),
                preview |-> PreviewOf(prev)],
      target_id |-> "human_review_exec" ]

\* json.dumps of the rejection record
RejectionJson(remarks) ==
    "{overall_status: rejected_by_human, remarks: " \o remarks \o "}"

\* APPROVAL_CONTEXT.pop(approval_id, {}) : the entry, or the empty dict
PopInfo(store, approval_id) ==
    IF approval_id \in DOMAIN store THEN store[approval_id] ELSE EmptyMap

\* info.get("payload")
PayloadOf(info) == IF info = EmptyMap THEN None ELSE info.payload

\* truth value of a str-or-None in a Python condition
Truthy(s) == s # None /\ s # ""

\* a faulty variant of Approves that looks at the cached payload alone
Approves_payload_only(response, payload) == Truthy(payload)

\* `if response.approved and payload`
Approves(response, payload) == response.approved /\ Truthy(payload)

\* handle_response: takes the entry of response.approval_id out of the store,
\* reports the decision as a hitl event and sends one message downstream
handle_response(store, response) ==
    LET info == PopInfo(store, response.approval_id)
        payload == PayloadOf(info)
    IN  [ store |-> Remove(store, response.approval_id),
          info |-> info,
          raised |-> FALSE,
          event |-> [type |-> "hitl",
                     status |-> IF response.approved THEN "approved" ELSE "rejected",
                     approval_id |-> response.approval_id],
          sent |-> IF Approves(response, payload)
                   THEN payload
                   ELSE RejectionJson(IF Truthy(response.comment)
                                      THEN response.comment ELSE "Rejected") ]

(***************************************************************************)
(* The workflow_small graph as the run engine executes it.                 *)
(***************************************************************************)
\* a faulty variant of ProgressEvent in which every node reports "running"
ProgressEvent_running(phase, status) ==
    [cls |-> "WorkflowEvent", dict |-> TRUE,
     data |-> [type |-> "progress", phase |-> phase, status |-> "running"]]

\* events of a run stream; dict says whether event.data is a dict
ProgressEvent(phase, status) ==
    [cls |-> "WorkflowEvent", dict |-> TRUE,
     data |-> [type |-> "progress", phase |-> phase, status |-> status]]
HitlEvent(data) == [cls |-> "WorkflowEvent", dict |-> TRUE, data |-> data]
ExecutorCompleted(id) ==
    [cls |-> "ExecutorCompletedEvent", dict |-> FALSE, executor_id |-> id,
     data |-> None]
RequestInfo(request_id, req) ==
    [cls |-> "RequestInfoEvent", dict |-> FALSE, request_id |-> request_id,
     data |-> req]
WorkflowOutput(data) ==
    [cls |-> "WorkflowOutputEvent", dict |-> FALSE, data |-> data]

\* isinstance(event, WorkflowEvent): every event class derives from it
IsWorkflowEvent(event) ==
    event.cls \in {"WorkflowEvent", "ExecutorCompletedEvent",
                   "RequestInfoEvent", "WorkflowOutputEvent"}

\* a workflow built by workflow_small, before run_stream
NewWorkflow ==
    [node |-> "doc_prompt", msg |-> None, events |-> <<>>,
     failed |-> FALSE, requests |-> EmptyMap,
     prepared |-> <<>>, answered |-> <<>>, sent |-> <<>>, starts |-> 0,
     iterations |-> 0]

\* no workflow object yet
NoWorkflow ==
    [node |-> "absent", msg |-> None, events |-> <<>>,
     failed |-> FALSE, requests |-> EmptyMap,
     prepared |-> <<>>, answered |-> <<>>, sent |-> <<>>, starts |-> 0,
     iterations |-> 0]

\* outcomes of the agent call made by the node about to run
AgentOutcomes(node) ==
    CASE node = "extractor_node" -> {ExtractedText, AgentError}
      [] node = "compliance_node" -> ComplianceTexts \cup {AgentError}
      [] OTHER -> {None}

\* a faulty variant of ExecNode in which the message handle_response sends
\* is taken by prepare_request again instead of the final node
ExecNode_recycling(w, run, store, agent) ==
    CASE run.node = "doc_prompt" ->
           [wf |-> [run EXCEPT !.node = "extractor_node", !.msg = "prompt",
                       !.events = <<ExecutorCompleted("doc_prompt")>>],
            store |-> store]
      [] run.node = "extractor_node" ->
           IF agent = AgentError
           THEN [wf |-> [run EXCEPT !.node = "none", !.failed = TRUE], store |-> store]
           ELSE [wf |-> [run EXCEPT !.node = "extractor_result_node", !.msg = agent,
                            !.events = <<ProgressEvent("extraction", "running"),
                                         ExecutorCompleted("extractor_node")>>],
                 store |-> store]
      [] run.node = "extractor_result_node" ->
           [wf |-> [run EXCEPT !.node = "compliance_node",
                       !.events = <<ProgressEvent("extraction", "completed"),
                                    ExecutorCompleted("extractor_result_node")>>],
            store |-> store]
      [] run.node = "compliance_node" ->
           IF agent = AgentError
           THEN [wf |-> [run EXCEPT !.node = "none", !.failed = TRUE,
                            !.events = <<ProgressEvent("compliance", "running")>>],
                 store |-> store]
           ELSE [wf |-> [run EXCEPT !.node = "compliance_result_node", !.msg = agent,
                            !.events = <<ProgressEvent("compliance", "running"),
                                         ExecutorCompleted("compliance_node")>>],
                 store |-> store]
      [] run.node = "compliance_result_node" ->
           [wf |-> [run EXCEPT !.node = "hitl_coordinator.prepare_request",
                       !.events = <<ProgressEvent("compliance", "completed"),
                                    ExecutorCompleted("compliance_result_node")>>],
            store |-> store]
      [] run.node = "hitl_coordinator.prepare_request" ->
           LET r == prepare_request(store, ApprovalIdOf(w), run.msg)
           IN  [wf |-> [run EXCEPT !.node = r.target_id, !.msg = r.sent,
                           !.prepared = Append(run.prepared, run.msg),
                           !.events = <<ExecutorCompleted("hitl_coordinator")>>],
                store |-> r.store]
      [] run.node = "human_review_exec" ->
           [wf |-> [run EXCEPT !.node = "none", !.msg = None,
                       !.requests = Put(run.requests, RequestIdOf(w), run.msg),
                       !.events = <<RequestInfo(RequestIdOf(w), run.msg),
                                    ExecutorCompleted("human_review_exec")>>],
            store |-> store]
      [] run.node = "hitl_coordinator.handle_response" ->
           LET r == handle_response(store, run.msg)
           IN  [wf |-> [run EXCEPT !.node = "hitl_coordinator.prepare_request", !.msg = r.sent,
                           !.answered = Append(run.answered, run.msg),
                           !.sent = Append(run.sent, r.sent),
                           !.events = <<HitlEvent(r.event),
                                        ExecutorCompleted("hitl_coordinator")>>],
                store |-> r.store]
      [] run.node = "final_result_placeholder" ->
           [wf |-> [run EXCEPT !.node = "none", !.msg = None,
                       !.events = <<WorkflowOutput(run.msg),
                                    ExecutorCompleted("final_result_placeholder")>>],
            store |-> store]

\* one executor of the graph runs on the message in flight: the events it
\* adds, the message it sends along its edge, the store it leaves
ExecNode(w, run, store, agent) ==
    CASE run.node = "doc_prompt" ->
           [wf |-> [run EXCEPT !.node = "extractor_node", !.msg = "prompt",
                       !.events = <<ExecutorCompleted("doc_prompt")>>],
            store |-> store]
      [] run.node = "extractor_node" ->
           IF agent = AgentError
           THEN [wf |-> [run EXCEPT !.node = "none", !.failed = TRUE], store |-> store]
           ELSE [wf |-> [run EXCEPT !.node = "extractor_result_node", !.msg = agent,
                            !.events = <<ProgressEvent("extraction", "running"),
                                         ExecutorCompleted("extractor_node")>>],
                 store |-> store]
      [] run.node = "extractor_result_node" ->
           [wf |-> [run EXCEPT !.node = "compliance_node",
                       !.events = <<ProgressEvent("extraction", "completed"),
                                    ExecutorCompleted("extractor_result_node")>>],
            store |-> store]
      [] run.node = "compliance_node" ->
           IF agent = AgentError
           THEN [wf |-> [run EXCEPT !.node = "none", !.failed = TRUE,
                            !.events = <<ProgressEvent("compliance", "running")>>],
                 store |-> store]
           ELSE [wf |-> [run EXCEPT !.node = "compliance_result_node", !.msg = agent,
                            !.events = <<ProgressEvent("compliance", "running"),
                                         ExecutorCompleted("compliance_node")>>],
                 store |-> store]
      [] run.node = "compliance_result_node" ->
           [wf |-> [run EXCEPT !.node = "hitl_coordinator.prepare_request",
                       !.events = <<ProgressEvent("compliance", "completed"),
                                    ExecutorCompleted("compliance_result_node")>>],
            store |-> store]
      [] run.node = "hitl_coordinator.prepare_request" ->
           LET r == prepare_request(store, ApprovalIdOf(w), run.msg)
           IN  [wf |-> [run EXCEPT !.node = r.target_id, !.msg = r.sent,
                           !.prepared = Append(run.prepared, run.msg),
                           !.events = <<ExecutorCompleted("hitl_coordinator")>>],
                store |-> r.store]
      [] run.node = "human_review_exec" ->
           [wf |-> [run EXCEPT !.node = "none", !.msg = None,
                       !.requests = Put(run.requests, RequestIdOf(w), run.msg),
                       !.events = <<RequestInfo(RequestIdOf(w), run.msg),
                                    ExecutorCompleted("human_review_exec")>>],
            store |-> store]
      [] run.node = "hitl_coordinator.handle_response" ->
           LET r == handle_response(store, run.msg)
           IN  [wf |-> [run EXCEPT !.node = "final_result_placeholder", !.msg = r.sent,
                           !.answered = Append(run.answered, run.msg),
                           !.sent = Append(run.sent, r.sent),
                           !.events = <<HitlEvent(r.event),
                                        ExecutorCompleted("hitl_coordinator")>>],
                store |-> r.store]
      [] run.node = "final_result_placeholder" ->
           [wf |-> [run EXCEPT !.node = "none", !.msg = None,
                       !.events = <<WorkflowOutput(run.msg),
                                    ExecutorCompleted("final_result_placeholder")>>],
            store |-> store]

\* a faulty variant of Deliver in which the stream of a failed run just ends
Deliver_silent(x) ==
    IF x.wf.events # <<>>
    THEN [kind |-> "event", event |-> Head(x.wf.events),
          wf |-> [x.wf EXCEPT !.events = Tail(@)], store |-> x.store]
    ELSE [kind |-> "end", event |-> None, wf |-> x.wf, store |-> x.store]

\* the next thing a run stream hands to its consumer: an event, the end of the
\* stream, or the exception of a failed executor
Deliver(x) ==
    IF x.wf.events # <<>>
    THEN [kind |-> "event", event |-> Head(x.wf.events),
          wf |-> [x.wf EXCEPT !.events = Tail(@)], store |-> x.store]
    ELSE IF x.wf.failed
    THEN [kind |-> "raise", event |-> None, wf |-> x.wf, store |-> x.store]
    ELSE [kind |-> "end", event |-> None, wf |-> x.wf, store |-> x.store]

\* WorkflowBuilder(max_iterations=80): the iteration bound of a pass
max_iterations == 80

\* one iteration of `async for event in stream`: events already produced are
\* handed over first, otherwise the next executor runs, which is one more
\* iteration of the pass
Pull(w, run, store, agent) ==
    IF run.events = <<>> /\ ~run.failed /\ run.node # "none"
    THEN LET x == ExecNode(w, run, store, agent)
         IN  Deliver([x EXCEPT !.wf.iterations = @ + 1])
    ELSE Deliver([wf |-> run, store |-> store])

\* the agent outcomes one Pull may observe
PullChoices(run) ==
    IF run.events = <<>> /\ ~run.failed THEN AgentOutcomes(run.node) ELSE {None}

\* a faulty variant of send_responses_streaming that hands no response back
send_responses_streaming_dropping(run, responses) ==
    [run EXCEPT !.events = <<>>, !.iterations = 0]

\* wf.send_responses_streaming(responses): the RequestInfoExecutor hands the
\* response of an outstanding request back to hitl_coordinator
send_responses_streaming(run, responses) ==
    IF \E r \in DOMAIN responses : r \in DOMAIN run.requests
    THEN LET r == CHOOSE r \in DOMAIN responses : r \in DOMAIN run.requests
         IN  [run EXCEPT !.node = "hitl_coordinator.handle_response",
                         !.msg = responses[r], !.events = <<>>,
                         !.requests = Remove(@, r), !.iterations = 0]
    ELSE [run EXCEPT !.events = <<>>, !.iterations = 0]

\* wf.run_stream(doc_input): the run starts at the start executor (starts
\* counts these calls)
run_stream(run) ==
    [run EXCEPT !.node = "doc_prompt", !.msg = None, !.events = <<>>,
                !.starts = @ + 1, !.iterations = 0]

\* a faulty variant of OpenStream that starts from the initial input each time
OpenStream_restart(run, pending_responses) == run_stream(run)

\* the stream the drivers open at the top of their loop
OpenStream(run, pending_responses) ==
    IF pending_responses # EmptyMap
    THEN send_responses_streaming(run, pending_responses)
    ELSE run_stream(run)

(***************************************************************************)
(* State.                                                                  *)
(***************************************************************************)
VARIABLES
    APPROVAL_CONTEXT,    \* approval id -> cached payload and context
    wf,                  \* workflow objects: 0 is run_once's, g is stream g's
    workflow_sessions,   \* session id -> session record
    pending_approvals,   \* request id -> session and published descriptor
    gen,                 \* the event_generator of each stream
    http,                \* the last response of submit_approval (status 0: none yet)
    acks,                \* request id acknowledged -> was its stream still waiting
    cli,                 \* run_once
    coord,               \* the coordinator handlers applied directly
    limits,              \* how many sessions and streams the clients open,
                         \* and whether they open streams that overlap
    compliance_exec,     \* the ComplianceAdapter of workflow_one: its last call
    start_requests,      \* session id -> the start request that created it
    small,               \* one call of small_workflow (workflow_one.py)
    game,                \* the guessing game of TurnManager (hitl.py)
    ingest               \* tracker directory, blob container and the
                         \* invocations of process_recent_blobs (ingestion.py)

vars == <<APPROVAL_CONTEXT, wf, workflow_sessions, pending_approvals, gen,
          http, acks, cli, coord, limits, compliance_exec, start_requests, small, game, ingest>>

\* the streams and sessions of this behaviour
StreamIds == 1..limits.streams
SessionIds == 1..limits.sessions
\* a session id no start_workflow call returned
UnknownSession == limits.sessions + 1

bridgeVars == <<workflow_sessions, pending_approvals, gen, http, acks>>

\* an event_generator that does not exist yet
NoGenerator ==
    [pc |-> "absent", session_id |-> 0,
     pending_responses |-> EmptyMap, request_info_events |-> <<>>,
     stream_open |-> FALSE, waited |-> 0, all_responses_ready |-> FALSE,
     out |-> <<>>, resumes |-> 0, doc_input |-> [document_uri |-> None,
     document_title |-> None, page_count |-> <<>>]]

(***************************************************************************)
(* Data of the ingestion job (ingestion.py)                                *)
(***************************************************************************)
\* invocations of process_recent_blobs on one day
MaxInvocations == 2
\* versions a blob goes through
MaxEtag == 2

Invocations == 1..MaxInvocations

\* f"run_{n:02d}": the run directories of the day, by number
RunNames == <<"run_01", "run_02", "run_03">>
\* int(d.split("_")[1])
RunNumber(d) == CHOOSE n \in DOMAIN RunNames : RunNames[n] = d

\* the blobs of the container, all modified within CRON_WINDOW_HOURS
Container == {"a.pdf", "b.pdf", "notes.txt"}
\* b.name.endswith(".pdf")
EndsWithPdf(name) == name \in {"a.pdf", "b.pdf"}
\* list_recent_blobs: names of the blobs it returns
list_recent_blobs == {name \in Container : EndsWithPdf(name)}

\* a key the tracker does not have
NoEntry == [etag |-> 0, page_count |-> 0, processed_at |-> 0]
\* the tracker {} as a total function on the names a tracker can hold
EmptyTracker == [name \in list_recent_blobs |-> NoEntry]

\* doc.page_count of a version of a blob
PageCountOf(etag) == 3 + etag

\* an invocation that has not begun
NoInvocation ==
    [pc |-> "idle", runs |-> {}, tracker_path |-> None,
     tracker |-> EmptyTracker, new_tracker |-> EmptyTracker,
     earlier |-> EmptyTracker, seen |-> [name \in list_recent_blobs |-> 0],
     counted |-> {}]

\* the tracker directory of today is empty and every blob is at its first
\* version
IngestInit ==
    [dirs |-> {}, files |-> [d \in {} |-> EmptyTracker],
     etag |-> [name \in Container |-> 1],
     recorded |-> EmptyTracker,
     inv |-> [i \in Invocations |-> NoInvocation]]

InitWith(sessions, streams, overlap) ==
    /\ ingest = IngestInit
    /\ limits = [sessions |-> sessions, streams |-> streams, overlap |-> overlap]
    /\ compliance_exec = [op |-> "none"]
    /\ start_requests = EmptyMap
    /\ game = [pc |-> "idle", guess |-> <<>>, replies |-> <<>>,
               agent_requests |-> 0, feedback_requests |-> 0,
               exited |-> FALSE, at_exit |-> <<0, 0>>, output |-> None]
    /\ small = [pc |-> "idle", document_uri |-> None, env |-> {}, stack |-> {},
                close_bound |-> FALSE, error |-> None, message |-> "",
                closes |-> 0, surfaced |-> None]
    /\ APPROVAL_CONTEXT = EmptyMap
    /\ wf = [w \in 0..streams |-> NoWorkflow]
    /\ workflow_sessions = EmptyMap
    /\ pending_approvals = EmptyMap
    /\ gen = [g \in 1..streams |-> NoGenerator]
    /\ http = [status |-> 0, request_id |-> UnknownId]
    /\ acks = EmptyMap
    /\ cli = [pc |-> "start", pending_responses |-> EmptyMap,
              request_info_events |-> <<>>, stream_open |-> FALSE,
              asked |-> 0, result |-> None, resumes |-> 0, decision |-> None]
    /\ coord = [suspensions |-> 0, taken |-> {}, op |-> "none",
                approval_id |-> UnknownId, prev |-> None, approved |-> FALSE,
                was_stored |-> FALSE, was_taken |-> FALSE,
                info |-> EmptyMap, sent |-> None, raised |-> FALSE]

\* clients that open one stream after the other
Init == InitWith(MaxSessions, MaxStreams, FALSE)

\* clients that open streams while others are still running
InitConcurrent == InitWith(MaxConcurrentSessions, MaxConcurrentStreams, TRUE)

(***************************************************************************)
(* SpecCoordinator: the two handlers of HitlCoordinator applied to inputs. *)
(***************************************************************************)
\* ids of the suspensions SpecCoordinator makes, and one that was never made
CoordIds == {ApprovalIdOf(n) : n \in 1..MaxSuspensions} \cup {UnknownId}

CoordPrepare(prev) ==
    /\ coord.suspensions < MaxSuspensions
    /\ LET rid == ApprovalIdOf(coord.suspensions + 1)
           r == prepare_request(APPROVAL_CONTEXT, rid, prev)
       IN  /\ APPROVAL_CONTEXT' = r.store
           /\ coord' = [coord EXCEPT !.suspensions = @ + 1,
                           !.op = "prepare_request", !.approval_id = rid,
                           !.prev = prev, !.sent = r.sent, !.raised = FALSE,
                           !.was_stored = rid \in DOMAIN APPROVAL_CONTEXT,
                           !.was_taken = rid \in coord.taken,
                           !.info = EmptyMap]
    /\ UNCHANGED <<wf, cli, bridgeVars, limits, compliance_exec, start_requests, small, game, ingest>>

CoordHandle(response) ==
    /\ LET r == handle_response(APPROVAL_CONTEXT, response)
       IN  /\ APPROVAL_CONTEXT' = r.store
           /\ coord' = [coord EXCEPT !.op = "handle_response",
                           !.approval_id = response.approval_id,
                           !.approved = response.approved,
                           !.taken = IF response.approval_id \in DOMAIN APPROVAL_CONTEXT
                                     THEN @ \cup {response.approval_id} ELSE @,
                           !.was_stored = response.approval_id \in DOMAIN APPROVAL_CONTEXT,
                           !.was_taken = response.approval_id \in coord.taken,
                           !.prev = IF response.approval_id \in DOMAIN APPROVAL_CONTEXT
                                    THEN APPROVAL_CONTEXT[response.approval_id].payload
                                    ELSE None,
                           !.info = r.info, !.sent = r.sent, !.raised = r.raised]
    /\ UNCHANGED <<wf, cli, bridgeVars, limits, compliance_exec, start_requests, small, game, ingest>>

NextCoordinator ==
    \/ \E prev \in ComplianceTexts : CoordPrepare(prev)
    \/ \E id \in CoordIds, approved \in BOOLEAN, comment \in Comments :
          CoordHandle([approval_id |-> id, approved |-> approved, comment |-> comment])

SpecCoordinator == Init /\ [][NextCoordinator]_vars

(***************************************************************************)
(* SpecCli: main and run_once (main.py) driving one workflow_small run.    *)
(***************************************************************************)
\* main: builds the workflow and enters run_once
CliMain ==
    /\ cli.pc = "start"
    /\ wf' = [wf EXCEPT ![0] = NewWorkflow]
    /\ cli' = [cli EXCEPT !.pc = "stream"]
    /\ UNCHANGED <<APPROVAL_CONTEXT, coord, bridgeVars, limits, compliance_exec, start_requests, small, game, ingest>>

\* one iteration of the `async for` of run_once, opening the stream first
\* when the while loop has just (re)started
CliEvent ==
    /\ cli.pc = "stream"
    /\ LET run == IF cli.stream_open THEN wf[0]
                  ELSE OpenStream(wf[0], cli.pending_responses)
           collected == IF cli.stream_open THEN cli.request_info_events ELSE <<>>
           resumed == ~cli.stream_open /\ cli.pending_responses # EmptyMap
       IN  \E agent \in PullChoices(run) :
             LET p == Pull(0, run, APPROVAL_CONTEXT, agent)
                 c == [cli EXCEPT !.stream_open = TRUE,
                                  !.pending_responses = EmptyMap,
                                  !.request_info_events = collected,
                                  !.resumes = IF resumed THEN @ + 1 ELSE @]
             IN  /\ wf' = [wf EXCEPT ![0] = p.wf]
                 /\ APPROVAL_CONTEXT' = p.store
                 /\ cli' =
                      CASE p.kind = "raise" -> [c EXCEPT !.pc = "raised"]
                        [] p.kind = "end" /\ collected = <<>> ->
                             [c EXCEPT !.pc = "returned", !.result = None]
                        [] p.kind = "end" /\ collected # <<>> ->
                             [c EXCEPT !.pc = "input", !.asked = 0]
                        [] p.kind = "event" /\ p.event.cls = "WorkflowOutputEvent" ->
                             [c EXCEPT !.pc = "returned", !.result = p.event.data]
                        [] p.kind = "event" /\ p.event.cls = "RequestInfoEvent" ->
                             [c EXCEPT !.request_info_events = Append(collected, p.event)]
                        [] OTHER -> c
    /\ UNCHANGED <<coord, bridgeVars, limits, compliance_exec, start_requests, small, game, ingest>>

\* input(...).strip().lower() == 'y'
IsYes(line) == line \in {"y", "Y"}

\* input(...).strip() or None
CommentOrNone(line) == IF line = "" THEN None ELSE line

\* the two input() calls for the next collected request
CliInput(answer, line) ==
    /\ cli.pc = "input"
    /\ LET request_event == cli.request_info_events[cli.asked + 1]
           decision == IsYes(answer)
           comment == CommentOrNone(line)
           resp == [approval_id |-> request_event.data.approval_id,
                    approved |-> decision, comment |-> comment]
           last == cli.asked + 1 = Len(cli.request_info_events)
       IN  cli' = [cli EXCEPT
                     !.pending_responses = Put(@, request_event.request_id, resp),
                     !.asked = @ + 1,
                     !.decision = decision,
                     !.pc = IF last THEN "stream" ELSE "input",
                     !.stream_open = IF last THEN FALSE ELSE @]
    /\ UNCHANGED <<APPROVAL_CONTEXT, wf, coord, bridgeVars, limits, compliance_exec, start_requests, small, game, ingest>>

NextCli ==
    \/ CliMain
    \/ CliEvent
    \/ \E answer \in AnswerLines, line \in CommentLines : CliInput(answer, line)

SpecCli == Init /\ [][NextCli]_vars

(***************************************************************************)
(* Spec: the SSE bridge (workflow_api.py).                                 *)
(***************************************************************************)
\* the message of the timeout error
TimeoutMessage == "Approval timeout - no response received"

\* datetime.utcnow().isoformat()
Timestamp == "utc"

\* a faulty variant of format_sse that writes the tag into the data line
format_sse_untagged(event_type, data) ==
    [event |-> "message", data |-> [type |-> event_type, data |-> data]]

\* format_sse: one record of the event stream
format_sse(event_type, data) == [event |-> event_type, data |-> data]

\* the stream that owns a request id (the run of stream g generates RequestIdOf(g))
OwnerOf(request_id) == request_id - RequestIdOf(0)

\* ids a submit_approval caller may name
RequestIds == {RequestIdOf(g) : g \in StreamIds} \cup {UnknownId}
ApprovalIds == {ApprovalIdOf(1), UnknownId}

\* WorkflowStartRequest; an Optional[int] is a sequence of at most one number,
\* <<>> being None
WorkflowStartRequest(document_uri, document_title, page_count) ==
    [document_uri |-> document_uri, document_title |-> document_title,
     page_count |-> page_count]

\* a start request that gives the document_uri alone
UriOnly(document_uri) == WorkflowStartRequest(document_uri, None, <<>>)

\* start requests with and without the optional fields
DocumentTitles == {None, "Invoice 7"}
PageCounts == {<<>>, <<20>>}
StartRequests ==
    {WorkflowStartRequest(u, t, p) :
        u \in DocumentUris, t \in DocumentTitles, p \in PageCounts}

\* DocInput(document_uri=session["document_uri"],
\*          document_title=session.get("document_title"),
\*          page_count=session.get("page_count"))
DocInput(session) ==
    [document_uri |-> session.document_uri,
     document_title |-> IF "document_title" \in DOMAIN session
                        THEN session.document_title ELSE None,
     page_count |-> IF "page_count" \in DOMAIN session
                    THEN session.page_count ELSE <<>>]

\* POST /api/workflow/start
start_workflow(request) ==
    /\ Cardinality(DOMAIN workflow_sessions) < limits.sessions
    /\ LET session_id == Cardinality(DOMAIN workflow_sessions) + 1
       IN  /\ workflow_sessions' =
                Put(workflow_sessions, session_id,
                    [status |-> "initializing", document_uri |-> request.document_uri,
                     created_at |-> Timestamp, pending_responses |-> EmptyMap])
           /\ start_requests' = Put(start_requests, session_id, request)
    /\ UNCHANGED <<APPROVAL_CONTEXT, wf, pending_approvals, gen, http, acks, cli,
                   coord, limits, compliance_exec, small, game, ingest>>

\* GET /api/workflow/{session_id}/events: 404 for an unknown session (nothing
\* changes), otherwise a new event_generator is returned
stream_workflow_events(session_id) ==
    /\ IF session_id \notin DOMAIN workflow_sessions
       THEN gen' = gen
       ELSE \E g \in StreamIds :
              /\ gen[g].pc = "absent"
              /\ \A h \in StreamIds : h < g => gen[h].pc # "absent"
              /\ limits.overlap \/ \A h \in StreamIds : h < g => gen[h].pc = "closed"
              /\ gen' = [gen EXCEPT ![g] = [NoGenerator EXCEPT !.pc = "connect",
                                                              !.session_id = session_id]]
    /\ UNCHANGED <<APPROVAL_CONTEXT, wf, workflow_sessions, pending_approvals,
                   http, acks, cli, coord, limits, compliance_exec, start_requests, small, game, ingest>>

\* a faulty variant of GenConnected that goes on to create the workflow without
\* yielding the connected record
GenConnected_silent(g) ==
    /\ gen[g].pc = "connect"
    /\ gen' = [gen EXCEPT ![g].pc = "create"]
    /\ UNCHANGED <<APPROVAL_CONTEXT, wf, workflow_sessions, pending_approvals,
                   http, acks, cli, coord, limits, compliance_exec, start_requests, small, game, ingest>>

\* event_generator up to its first yield
GenConnected(g) ==
    /\ gen[g].pc = "connect"
    /\ gen' = [gen EXCEPT ![g].pc = "create",
                 ![g].out = Append(@, format_sse("connected",
                     [session_id |-> gen[g].session_id, timestamp |-> Timestamp]))]
    /\ UNCHANGED <<APPROVAL_CONTEXT, wf, workflow_sessions, pending_approvals,
                   http, acks, cli, coord, limits, compliance_exec, start_requests, small, game, ingest>>

\* event_generator: builds the workflow and yields workflow_started
GenStarted(g) ==
    /\ gen[g].pc = "create"
    /\ wf' = [wf EXCEPT ![g] = NewWorkflow]
    /\ gen' = [gen EXCEPT ![g].pc = "stream", ![g].stream_open = FALSE,
                 ![g].pending_responses = EmptyMap,
                 ![g].doc_input = DocInput(workflow_sessions[gen[g].session_id]),
                 ![g].out = Append(@, format_sse("workflow_started",
                     [session_id |-> gen[g].session_id,
                      document_uri |-> workflow_sessions[gen[g].session_id].document_uri]))]
    /\ UNCHANGED <<APPROVAL_CONTEXT, workflow_sessions, pending_approvals,
                   http, acks, cli, coord, limits, compliance_exec, start_requests, small, game, ingest>>

\* str(x) of a str or None
str(x) == IF x = None THEN "None" ELSE x

\* the descriptor event_generator publishes for a RequestInfoEvent
ApprovalData(event) ==
    [request_id |-> event.request_id, approval_id |-> event.data.approval_id,
     title |-> event.data.title, message |-> event.data.message,
     source_uri |-> event.data.source_uri,
     preview |-> event.data.preview, timestamp |-> Timestamp]

\* the records event_generator yields for one event of the run stream, by the
\* isinstance chain of its loop body
RecordsFor(session_id, event) ==
    IF event.cls = "WorkflowOutputEvent"
    THEN <<format_sse("workflow_completed",
              [session_id |-> session_id, result |-> str(event.data),
               timestamp |-> Timestamp])>>
    ELSE IF event.cls = "RequestInfoEvent"
    THEN <<format_sse("approval_required", ApprovalData(event))>>
    ELSE IF IsWorkflowEvent(event)
    THEN IF ~event.dict THEN <<>>
         ELSE IF event.data.type = "progress"
         THEN <<format_sse("progress",
                   [phase |-> event.data.phase, status |-> event.data.status,
                    timestamp |-> Timestamp])>>
         ELSE IF event.data.type = "hitl"
         THEN <<format_sse("hitl_status",
                   [status |-> event.data.status,
                    approval_id |-> event.data.approval_id,
                    timestamp |-> Timestamp])>>
         ELSE <<>>
    ELSE IF event.cls = "ExecutorCompletedEvent"
    THEN <<format_sse("executor_completed",
              [executor_id |-> event.executor_id, timestamp |-> Timestamp])>>
    ELSE <<>>

\* one iteration of the `async for` of event_generator, opening the stream
\* first when the while loop has just (re)started; covers the end of the
\* stream and the except clause
GenEvent(g) ==
    /\ gen[g].pc = "stream"
    /\ LET me == gen[g]
           run == IF me.stream_open THEN wf[g]
                  ELSE OpenStream(wf[g], me.pending_responses)
           collected == IF me.stream_open THEN me.request_info_events ELSE <<>>
           resumed == ~me.stream_open /\ me.pending_responses # EmptyMap
       IN  \E agent \in PullChoices(run) :
             LET p == Pull(g, run, APPROVAL_CONTEXT, agent)
                 c == [me EXCEPT !.stream_open = TRUE,
                                 !.pending_responses = EmptyMap,
                                 !.request_info_events = collected,
                                 !.resumes = IF resumed THEN @ + 1 ELSE @]
             IN  /\ wf' = [wf EXCEPT ![g] = p.wf]
                 /\ APPROVAL_CONTEXT' = p.store
                 /\ pending_approvals' =
                      IF p.kind = "event" /\ p.event.cls = "RequestInfoEvent"
                      THEN Put(pending_approvals, p.event.request_id,
                               [session_id |-> me.session_id,
                                approval_data |-> ApprovalData(p.event)])
                      ELSE pending_approvals
                 /\ gen' = [gen EXCEPT ![g] =
                      CASE p.kind = "raise" ->
                             [c EXCEPT !.pc = "closed",
                                !.out = Append(@, format_sse("error",
                                    [message |-> AgentError, timestamp |-> Timestamp]))]
                        [] p.kind = "end" /\ collected = <<>> ->
                             [c EXCEPT !.pc = "closed"]
                        [] p.kind = "end" /\ collected # <<>> ->
                             [c EXCEPT !.pc = "wait", !.waited = 0,
                                !.out = Append(@, format_sse("waiting_for_approval",
                                    [count |-> Len(collected), timestamp |-> Timestamp]))]
                        [] p.kind = "event" /\ p.event.cls = "WorkflowOutputEvent" ->
                             [c EXCEPT !.pc = "closed",
                                !.out = @ \o RecordsFor(me.session_id, p.event)]
                        [] p.kind = "event" /\ p.event.cls = "RequestInfoEvent" ->
                             [c EXCEPT !.request_info_events = Append(collected, p.event),
                                !.out = @ \o RecordsFor(me.session_id, p.event)]
                        [] OTHER ->
                             [c EXCEPT !.out = @ \o RecordsFor(me.session_id, p.event)]]
    /\ UNCHANGED <<workflow_sessions, http, acks, cli, coord, limits, compliance_exec, start_requests, small, game, ingest>>

\* a faulty variant of AllResponsesReady that walks the answers instead of the
\* collected requests
AllResponsesReady_over_answers(me) ==
    \A r \in DOMAIN me.pending_responses :
        \E i \in 1..Len(me.request_info_events) :
            me.request_info_events[i].request_id = r

\* the check the wait loop makes on each round
AllResponsesReady(me) ==
    \A i \in 1..Len(me.request_info_events) :
        me.request_info_events[i].request_id \in DOMAIN me.pending_responses

\* a faulty variant of GenPoll that sleeps without giving up control, so the
\* rounds of the wait loop run as one step
GenPoll_blocking(g) ==
    /\ gen[g].pc = "wait"
    /\ gen[g].waited < max_wait
    /\ gen' = [gen EXCEPT ![g] =
                 IF AllResponsesReady(gen[g])
                 THEN [@ EXCEPT !.all_responses_ready = TRUE, !.pc = "stream",
                                !.stream_open = FALSE]
                 ELSE [@ EXCEPT !.all_responses_ready = FALSE, !.waited = max_wait]]
    /\ UNCHANGED <<APPROVAL_CONTEXT, wf, workflow_sessions, pending_approvals,
                   http, acks, cli, coord, limits, compliance_exec, start_requests, small, game, ingest>>

\* one round of the wait loop: the check, then either the break that leads
\* back to the top of the while loop or asyncio.sleep(1)
GenPoll(g) ==
    /\ gen[g].pc = "wait"
    /\ gen[g].waited < max_wait
    /\ gen' = [gen EXCEPT ![g] =
                 IF AllResponsesReady(gen[g])
                 THEN [@ EXCEPT !.all_responses_ready = TRUE, !.pc = "stream",
                                !.stream_open = FALSE]
                 ELSE [@ EXCEPT !.all_responses_ready = FALSE, !.waited = @ + 1]]
    /\ UNCHANGED <<APPROVAL_CONTEXT, wf, workflow_sessions, pending_approvals,
                   http, acks, cli, coord, limits, compliance_exec, start_requests, small, game, ingest>>

\* the wait loop ran out: the timeout error, then return
GenTimeout(g) ==
    /\ gen[g].pc = "wait"
    /\ gen[g].waited >= max_wait
    /\ ~gen[g].all_responses_ready
    /\ gen' = [gen EXCEPT ![g].pc = "closed",
                 ![g].out = Append(@, format_sse("error",
                     [message |-> TimeoutMessage,
                      timestamp |-> Timestamp]))]
    /\ UNCHANGED <<APPROVAL_CONTEXT, wf, workflow_sessions, pending_approvals,
                   http, acks, cli, coord, limits, compliance_exec, start_requests, small, game, ingest>>

\* the stream that published request_id is still able to act on an answer
InTime(request_id) ==
    LET g == OwnerOf(request_id)
    IN  /\ g \in StreamIds
        /\ gen[g].pc \in {"stream", "wait"}
        /\ gen[g].waited < max_wait

\* a faulty variant of CleanUp that empties the whole table
CleanUp_all(request_id) == EmptyMap

\* a faulty variant of CleanUp that leaves the entry in place
CleanUp_skipped(request_id) == pending_approvals

\* `del pending_approvals[decision.request_id]`
CleanUp(request_id) == Remove(pending_approvals, request_id)

\* POST /api/workflow/approval
submit_approval(decision) ==
    IF decision.request_id \notin DOMAIN pending_approvals
    THEN /\ http' = [status |-> 404, request_id |-> decision.request_id]
         /\ UNCHANGED <<gen, workflow_sessions, pending_approvals, acks,
                        APPROVAL_CONTEXT, wf, cli, coord, limits, compliance_exec, start_requests, small, game, ingest>>
    ELSE LET session_id == pending_approvals[decision.request_id].session_id
             resp == [approval_id |-> decision.approval_id,
                      approved |-> decision.approved, comment |-> decision.comment]
         IN  IF session_id \notin DOMAIN workflow_sessions
             THEN /\ http' = [status |-> 404, request_id |-> decision.request_id]
                  /\ UNCHANGED <<gen, workflow_sessions, pending_approvals, acks,
                                 APPROVAL_CONTEXT, wf, cli, coord, limits, compliance_exec, start_requests, small, game, ingest>>
             ELSE /\ http' = [status |-> 200, request_id |-> decision.request_id]
                  /\ workflow_sessions' =
                       [workflow_sessions EXCEPT ![session_id].pending_responses =
                           Put(@, decision.request_id, resp)]
                  /\ pending_approvals' = CleanUp(decision.request_id)
                  /\ acks' = Put(acks, decision.request_id, InTime(decision.request_id))
                  /\ UNCHANGED <<gen, APPROVAL_CONTEXT, wf, cli, coord, limits, compliance_exec, start_requests, small, game, ingest>>

Decisions ==
    [request_id : RequestIds, approval_id : ApprovalIds,
     approved : BOOLEAN, comment : {None}]

Next ==
    \/ \E document_uri \in DocumentUris : start_workflow(UriOnly(document_uri))
    \/ \E session_id \in SessionIds \cup {UnknownSession} :
          stream_workflow_events(session_id)
    \/ \E g \in StreamIds : GenConnected(g)
    \/ \E g \in StreamIds : GenStarted(g)
    \/ \E g \in StreamIds : GenEvent(g)
    \/ \E g \in StreamIds : GenPoll(g)
    \/ \E g \in StreamIds : GenTimeout(g)
    \/ \E decision \in Decisions : submit_approval(decision)

Spec == Init /\ [][Next]_vars

SpecConcurrent == InitConcurrent /\ [][Next]_vars

(***************************************************************************)
(* Properties of the bridge.                                               *)
(***************************************************************************)
\* stream g has yielded a record with this tag
HasRecord(g, tag) == \E i \in 1..Len(gen[g].out) : gen[g].out[i].event = tag

\* the last record stream g has yielded is the timeout error
LastIsTimeout(g) ==
    /\ gen[g].out # <<>>
    /\ gen[g].out[Len(gen[g].out)].event = "error"
    /\ gen[g].out[Len(gen[g].out)].data.message = TimeoutMessage

\* stream g has ended on the timeout of its approval wait
TimedOut(g) == gen[g].pc = "closed" /\ LastIsTimeout(g)

\* request ids stream g collected in its current pass
Outstanding(g) ==
    {gen[g].request_info_events[i].request_id : i \in 1..Len(gen[g].request_info_events)}

\* request ids stream g published in an approval_required record
PublishedOn(g) ==
    {gen[g].out[i].data.request_id :
        i \in {j \in 1..Len(gen[g].out) : gen[g].out[j].event = "approval_required"}}

\* request ids that were published on any stream
Published == UNION {PublishedOn(g) : g \in StreamIds}

\* the request id was published in an approval_required record of some stream
IsPublished(request_id) ==
    \E g \in StreamIds : \E i \in 1..Len(gen[g].out) :
        /\ gen[g].out[i].event = "approval_required"
        /\ gen[g].out[i].data.request_id = request_id

\* terminal records stream g has yielded
TerminalRecords(g) ==
    {i \in 1..Len(gen[g].out) : gen[g].out[i].event \in {"workflow_completed", "error"}}

\* C1: when the only outstanding request of a pass was published on the
\* stream and an approved answer for it is acknowledged before the wait bound
\* expires, the stream does not end on the timeout error (it resumes the run
\* and completes).
C1_ApprovedAnswerResumes ==
    \A g \in StreamIds :
        LET r == RequestIdOf(g)
            sid == gen[g].session_id
        IN  ( /\ Outstanding(g) = {r}
              /\ r \in Published
              /\ r \in DOMAIN acks
              /\ acks[r]
              /\ workflow_sessions[sid].pending_responses[r].approval_id = ApprovalIdOf(g)
              /\ workflow_sessions[sid].pending_responses[r].approved )
            => ~TimedOut(g)

\* what C2 asks of one step, for stream g
C2_Step(g) ==
    /\ gen'[g].waited <= max_wait
    /\ ( /\ gen[g].pc = "wait"
         /\ gen'[g].pc # "wait"
         /\ Outstanding(g) \cap DOMAIN acks = {} )
       => /\ gen[g].waited = max_wait
          /\ TimedOut(g)'
          /\ Cardinality(TerminalRecords(g))' = 1
    /\ TimedOut(g) => (gen'[g] = gen[g] /\ wf'[g] = wf[g])

\* C2: a stream that waits for approval never polls more than max_wait
\* times; with no answer submitted it leaves the wait only after max_wait
\* polls and only by yielding the timeout error, which stays its last record:
\* after it the stream yields nothing and its run is not resumed.
C2_TimeoutEndsTheStream == [][\A g \in StreamIds : C2_Step(g)]_vars

\* C2 witness: a stream timed out with no answer ever submitted
C2_Witness ==
    \E g \in StreamIds :
        /\ TimedOut(g)
        /\ Outstanding(g) # {}
        /\ acks = EmptyMap

\* C3: after a stream's approval wait timed out, none of the requests it had
\* outstanding is left in pending_approvals or APPROVAL_CONTEXT.
C3_TimeoutPurgesRequests ==
    \A g \in StreamIds :
        TimedOut(g) =>
            \A i \in 1..Len(gen[g].request_info_events) :
                /\ gen[g].request_info_events[i].request_id \notin DOMAIN pending_approvals
                /\ gen[g].request_info_events[i].data.approval_id \notin DOMAIN APPROVAL_CONTEXT

\* terminal records yielded on the streams of one session
TerminalCount(sid, g) ==
    IF gen[g].session_id = sid THEN Cardinality(TerminalRecords(g)) ELSE 0

\* C4: a session gets exactly one terminal record: every stream that has
\* ended yielded one, and the streams of one session never yield two between
\* them.
C4_OneTerminalRecordPerSession ==
    /\ \A g \in StreamIds : gen[g].pc = "closed" => TerminalRecords(g) # {}
    /\ \A sid \in DOMAIN workflow_sessions :
          \A g, h \in StreamIds :
              g # h => TerminalCount(sid, g) + TerminalCount(sid, h) <= 1

\* C5: a submit_approval call naming a request id that was never published,
\* or one that was already acknowledged, answers 404 and leaves
\* pending_approvals and the sessions (with their pending-answers buffers)
\* unchanged.
C5_UnknownOrAnsweredIs404 ==
    [][ \A request_id \in RequestIds :
          ( /\ \/ request_id \in DOMAIN acks
               \/ ~IsPublished(request_id)
            /\ \E decision \in Decisions :
                  /\ decision.request_id = request_id
                  /\ submit_approval(decision) )
          => /\ http' = [status |-> 404, request_id |-> request_id]
             /\ UNCHANGED <<pending_approvals, workflow_sessions, acks>> ]_vars

\* C5 witness: a second submission for an acknowledged request was rejected
C5_Witness ==
    /\ http.status = 404
    /\ http.request_id \in DOMAIN acks
    /\ http.request_id \in Published

\* C8: a run whose compliance evaluator reported the document compliant
\* yields no approval_required record, and when its stream has ended it has
\* yielded progress(extraction, completed), progress(compliance, completed)
\* and workflow_completed.
C8_CompliantCompletesUnsuspended ==
    \A g \in StreamIds :
        (wf[g].prepared # <<>> /\ wf[g].prepared[1] = CompliantJson)
        => /\ ~HasRecord(g, "approval_required")
           /\ gen[g].pc = "closed" => HasRecord(g, "workflow_completed")

(***************************************************************************)
(* Properties of the coordinator and of the run it suspends.               *)
(***************************************************************************)
\* the message is a rejection record (overall_status = rejected_by_human)
IsRejection(msg) ==
    \E remarks \in (Comments \cup CommentLines \cup {"Rejected"}) \ {None, ""} :
        msg = RejectionJson(remarks)

\* C6: when the answer delivered to the coordinator has approved = false, the
\* message it forwards is a rejected_by_human record and not the cached
\* payload, the run does not fail, and the final output run_once returns is
\* that record.
C6_RejectionIsForwarded ==
    \A i \in 1..Len(wf[0].answered) :
        ~wf[0].answered[i].approved =>
            /\ IsRejection(wf[0].sent[i])
            /\ wf[0].sent[i] # wf[0].prepared[i]
            /\ cli.pc # "raised"
            /\ cli.pc = "returned" => cli.result = wf[0].sent[i]

\* C6 witness: run_once returned the rejection record after a 'n' answer
C6_Witness ==
    /\ cli.pc = "returned"
    /\ Len(wf[0].answered) = 1
    /\ ~wf[0].answered[1].approved
    /\ cli.result = RejectionJson("looks wrong")

\* C7: for every payload that entered prepare_request, when the matching
\* answer is approved the message handle_response sends downstream, and so
\* the final output of the run, is exactly that payload.
C7_ApprovedRoundTrip ==
    \A i \in 1..Len(wf[0].answered) :
        ( /\ wf[0].answered[i].approved
          /\ wf[0].answered[i].approval_id = ApprovalIdOf(0) )
        => /\ wf[0].sent[i] = wf[0].prepared[i]
           /\ cli.pc = "returned" => cli.result = wf[0].prepared[i]

\* C9: an answer whose id matches no entry held in the store is rejected with
\* an error: nothing is sent downstream and the store is unchanged.
C9_UnknownIdIsRejected ==
    (coord.op = "handle_response" /\ ~coord.was_stored)
    => /\ coord.raised
       /\ coord.sent = None

\* C10: the first take of a stored id returns the stored context and removes
\* the entry; a second take of the same id reports not-found as an error
\* instead of returning a value.
C10_TakeIsExactlyOnce ==
    coord.op = "handle_response" =>
        /\ coord.was_stored =>
              /\ coord.info # EmptyMap
              /\ coord.info.payload = coord.prev
              /\ coord.approval_id \notin DOMAIN APPROVAL_CONTEXT
        /\ (coord.was_taken /\ ~coord.was_stored) => coord.raised

RunStarted(g) == wf[g] # NoWorkflow /\ wf[g] # NewWorkflow

\* C12: at most one run is ever started for a session: no two streams of the
\* same session have each started a run.
C12_OneRunPerSession ==
    \A g, h \in StreamIds :
        (g # h /\ RunStarted(g) /\ RunStarted(h))
        => gen[g].session_id # gen[h].session_id

\* a step event_generator g takes on its own, between two yields or awaits
GenStep(g) ==
    GenConnected(g) \/ GenStarted(g) \/ GenEvent(g) \/ GenPoll(g) \/ GenTimeout(g)

\* Spec with the scheduling of the event loop: a generator that can take a
\* step eventually takes it; the clients' calls are under no obligation
SpecFair == Spec /\ \A g \in 1..MaxStreams : WF_vars(GenStep(g))

\* C13: once start_workflow has created a session, a run for that session
\* eventually starts executing, whether or not a consumer opens the stream.
C13_SessionStartsItsRun ==
    \A sid \in 1..MaxSessions :
        (sid \in DOMAIN workflow_sessions)
        ~> (\E g \in 1..MaxStreams : gen[g].session_id = sid /\ RunStarted(g))

\* C14: once a stream has yielded workflow_completed or error, its session is
\* no longer a key of workflow_sessions.
C14_TerminalDestroysSession ==
    \A g \in StreamIds :
        TerminalRecords(g) # {} => gen[g].session_id \notin DOMAIN workflow_sessions

(***************************************************************************)
(* SpecCancel: the bridge with consumers that may close a stream early.    *)
(***************************************************************************)
\* the consumer closes the connection of stream g: the generator is closed at
\* the yield or await it is suspended on; GeneratorExit and CancelledError
\* are not caught by `except Exception`, and the body has no finally clause,
\* so the frame (with its workflow object) goes away and nothing else runs
GenCancel(g) ==
    /\ gen[g].pc \in {"connect", "create", "stream", "wait"}
    /\ gen' = [gen EXCEPT ![g].pc = "cancelled"]
    /\ wf' = [wf EXCEPT ![g] = NoWorkflow]
    /\ UNCHANGED <<APPROVAL_CONTEXT, workflow_sessions, pending_approvals,
                   http, acks, cli, coord, limits, compliance_exec, start_requests, small, game, ingest>>

NextCancel ==
    \/ Next
    \/ \E g \in StreamIds : GenCancel(g)

SpecCancel == Init /\ [][NextCancel]_vars

\* C15: after the consumer closed stream g before a terminal record, the
\* run state of g is released, none of the request ids g published is left in
\* pending_approvals and the approval id of its suspension is not left in
\* APPROVAL_CONTEXT.
C15_CancelPurgesRequests ==
    \A g \in StreamIds :
        gen[g].pc = "cancelled"
        => /\ wf[g] = NoWorkflow
           /\ PublishedOn(g) \cap DOMAIN pending_approvals = {}
           /\ ApprovalIdOf(g) \notin DOMAIN APPROVAL_CONTEXT

\* positions of the records with this tag on stream g
RecordsTagged(g, tag) == {i \in 1..Len(gen[g].out) : gen[g].out[i].event = tag}

\* the descriptors of the requests stream g collected in its pass
Descriptors(g) ==
    [i \in 1..Len(gen[g].request_info_events) |->
        ApprovalData(gen[g].request_info_events[i])]

\* stream g yielded one waiting_for_approval record, after all of its
\* approval_required records
OneWaitingRecordAfterRequests(g) ==
    /\ Cardinality(RecordsTagged(g, "waiting_for_approval")) = 1
    /\ Cardinality(RecordsTagged(g, "approval_required")) = Len(gen[g].request_info_events)
    /\ \A i \in RecordsTagged(g, "approval_required") :
          \A j \in RecordsTagged(g, "waiting_for_approval") : i < j

\* C16: a stream whose pass ended with N >= 1 approval requests has yielded
\* exactly one waiting_for_approval record for it, after the N
\* approval_required records, and that record carries the N descriptors.
C16_WaitingRecordCarriesRequests ==
    \A g \in StreamIds :
        (gen[g].pc = "wait" /\ Len(gen[g].request_info_events) >= 1)
        => /\ OneWaitingRecordAfterRequests(g)
           /\ \A j \in RecordsTagged(g, "waiting_for_approval") :
                 /\ "requests" \in DOMAIN gen[g].out[j].data
                 /\ gen[g].out[j].data.requests = Descriptors(g)

\* the last record stream g has yielded is the error record of a failed step
LastIsFailure(g) ==
    /\ gen[g].out # <<>>
    /\ gen[g].out[Len(gen[g].out)].event = "error"
    /\ gen[g].out[Len(gen[g].out)].data.message = AgentError

\* what C17 asks of one step, for stream g
C17_Step(g) ==
    /\ wf'[g].failed
       => /\ gen'[g].pc \in {"stream", "closed"}
          /\ gen'[g].pc = "closed"
             => /\ LastIsFailure(g)'
                /\ ~HasRecord(g, "workflow_completed")'
                /\ Cardinality(TerminalRecords(g))' = 1
    /\ (wf[g].failed /\ wf[g].events = <<>> /\ gen'[g] # gen[g])
       => gen[g].pc = "stream" /\ gen'[g].pc = "closed"

\* C17: when an executor of the run fails, the stream hands over the events
\* produced before the failure, and its next step closes it with an error
\* record carrying the failure's message as its last record; it yields
\* nothing after it and never yields workflow_completed.
C17_FailureEndsWithError == [][\A g \in StreamIds : C17_Step(g)]_vars

\* C17 witness: a run failed in the compliance step and its stream closed on
\* the error record
C17_Witness ==
    \E g \in StreamIds :
        /\ wf[g].failed
        /\ gen[g].pc = "closed"
        /\ LastIsFailure(g)
        /\ HasRecord(g, "progress")

(***************************************************************************)
(* Properties of run_once and of the graph.                                *)
(***************************************************************************)
\* C18: run_once calls run_stream with the initial input exactly once, as the
\* first engine call; every later stream is opened by
\* send_responses_streaming, and only when a decision has been read for every
\* request collected in the pass before.
C18_StartOnceThenResume ==
    [][ /\ wf'[0].starts <= 1
        /\ (~cli.stream_open /\ cli'.stream_open)
           => \/ /\ wf[0].starts = 0 /\ wf'[0].starts = 1
                 /\ cli.resumes = 0 /\ cli'.resumes = 0
              \/ /\ wf[0].starts = 1 /\ wf'[0].starts = 1
                 /\ cli'.resumes = cli.resumes + 1
        /\ cli'.resumes = cli.resumes + 1
           => /\ cli.request_info_events # <<>>
              /\ cli.asked = Len(cli.request_info_events)
              /\ \A i \in 1..Len(cli.request_info_events) :
                    cli.request_info_events[i].request_id
                        \in DOMAIN cli.pending_responses ]_vars

\* C18 witness: run_once returned after one start and one resume
C18_Witness ==
    /\ cli.pc = "returned"
    /\ wf[0].starts = 1
    /\ cli.resumes = 1

\* SpecCli with the scheduling of run_once: its loop goes on while it can
SpecCliFair == SpecCli /\ WF_vars(CliEvent)

\* run_once is between passes, or done: the pass ended with an output
\* (completed), an exception (failed) or collected requests (awaiting input)
PassEnded == cli.pc \in {"returned", "raised", "input"}

\* C19: a pass of a workflow_small run never needs more than max_iterations
\* iterations, and every pass that is under way ends: with the output, with
\* a failure, or awaiting input.
C19_RunReachesARestingState ==
    /\ [](wf[0].iterations <= max_iterations)
    /\ (cli.pc = "stream") ~> PassEnded

\* C19 witness: the run went round the approval cycle (coordinator, gate,
\* coordinator) and completed
C19_Witness ==
    /\ cli.pc = "returned"
    /\ cli.resumes = 1
    /\ wf[0].iterations > 0
    /\ Len(wf[0].prepared) = 1 /\ Len(wf[0].answered) = 1

(***************************************************************************)
(* Properties of the records of the bridge.                                *)
(***************************************************************************)
\* the tags of the event records
RecordTags ==
    {"connected", "workflow_started", "progress", "approval_required",
     "waiting_for_approval", "executor_completed", "workflow_completed", "error"}

\* C20: every record a stream has yielded has one of the eight listed tags.
C20_RecordTagsAreListed ==
    \A g \in StreamIds :
        \A i \in 1..Len(gen[g].out) : gen[g].out[i].event \in RecordTags

\* C20 witness: a stream ran from connected to its terminal record through
\* progress, approval_required and waiting_for_approval
C20_Witness ==
    \E g \in StreamIds :
        /\ gen[g].pc = "closed"
        /\ \A tag \in {"connected", "workflow_started", "progress",
                       "approval_required", "waiting_for_approval", "error"} :
              HasRecord(g, tag)

(***************************************************************************)
(* Content and order of the records of a stream.                           *)
(***************************************************************************)
\* C21: every record a stream has yielded carries both the session id and a
\* timestamp.
C21_RecordsCarrySessionAndTime ==
    \A g \in StreamIds :
        \A i \in 1..Len(gen[g].out) :
            /\ {"session_id", "timestamp"} \subseteq DOMAIN gen[g].out[i].data
            /\ gen[g].out[i].data.session_id = gen[g].session_id

\* the request ids run_once collected in the pass that just ended
CliCollected == {cli.request_info_events[i].request_id :
                    i \in 1..Len(cli.request_info_events)}

\* run_once is about to call send_responses_streaming
CliResumes == cli.pc = "stream" /\ ~cli.stream_open /\ cli.pending_responses # EmptyMap

\* C22: whenever run_once resumes the run, the answer map it passes has exactly
\* the request ids collected in the pass that just ended, each of its answers
\* is handed to the run once and nothing else is, and the buffer of run_once
\* is empty after the call.
C22_ResumePassesCollectedAnswers ==
    [][CliResumes =>
          /\ DOMAIN cli.pending_responses = CliCollected
          /\ Len(cli.request_info_events) = Cardinality(CliCollected)
          /\ Len(wf'[0].answered) =
                Len(wf[0].answered) + Cardinality(DOMAIN cli.pending_responses)
          /\ \A r \in DOMAIN cli.pending_responses :
                \E i \in (Len(wf[0].answered) + 1)..Len(wf'[0].answered) :
                    wf'[0].answered[i] = cli.pending_responses[r]
          /\ cli'.pending_responses = EmptyMap]_vars

\* run_once has resumed its run with the answer to the collected request
C22_Witness ==
    /\ cli.resumes = 1
    /\ cli.pending_responses = EmptyMap
    /\ Len(cli.request_info_events) = 0
    /\ Len(wf[0].answered) = 1
    /\ wf[0].answered[1].approval_id = ApprovalIdOf(0)

\* sessions with a request of theirs in pending_approvals
SessionsWithOutstanding ==
    {pending_approvals[r].session_id : r \in DOMAIN pending_approvals}

\* C24: with requests of two sessions outstanding, a step that accepts an
\* answer for request r of session A removes r alone from pending_approvals,
\* adds the answer under r to A's pending_responses alone, and leaves every
\* other session record, the streams and the runs as they were.
C24_AnswerTouchesOneSession ==
    [][\A r \in DOMAIN pending_approvals :
          (r \notin DOMAIN pending_approvals'
              /\ Cardinality(SessionsWithOutstanding) = 2)
          => LET A == pending_approvals[r].session_id
             IN  /\ pending_approvals' = Remove(pending_approvals, r)
                 /\ DOMAIN workflow_sessions' = DOMAIN workflow_sessions
                 /\ \A B \in DOMAIN workflow_sessions :
                       B # A => workflow_sessions'[B] = workflow_sessions[B]
                 /\ r \in DOMAIN workflow_sessions'[A].pending_responses
                 /\ Remove(workflow_sessions'[A].pending_responses, r) =
                       Remove(workflow_sessions[A].pending_responses, r)
                 /\ [workflow_sessions'[A] EXCEPT !.pending_responses = EmptyMap] =
                       [workflow_sessions[A] EXCEPT !.pending_responses = EmptyMap]
                 /\ gen' = gen /\ wf' = wf
                 /\ APPROVAL_CONTEXT' = APPROVAL_CONTEXT]_vars

\* an answer for a request of one session has been accepted while a request
\* of the other session is still outstanding and that session's buffer is
\* empty
C24_Witness ==
    \E A \in DOMAIN workflow_sessions, B \in DOMAIN workflow_sessions :
        /\ A # B
        /\ http.status = 200
        /\ http.request_id \in DOMAIN workflow_sessions[A].pending_responses
        /\ workflow_sessions[B].pending_responses = EmptyMap
        /\ \E q \in DOMAIN pending_approvals : pending_approvals[q].session_id = B
        /\ \A q \in DOMAIN pending_approvals : pending_approvals[q].session_id # A
        /\ \E g \in StreamIds : gen[g].session_id = B /\ gen[g].pc = "wait"

\* stream h has a step of its generator left to take
Running(h) == gen[h].pc \in {"connect", "create", "stream", "wait"}

\* while stream g is in its wait loop every submit_approval call and every
\* other running stream can take its next step
OthersCanStep(g) ==
    /\ \A decision \in Decisions : ENABLED submit_approval(decision)
    /\ \A h \in StreamIds \ {g} : Running(h) => ENABLED GenStep(h)

\* C25: a stream waiting for approval never blocks the rest: each step it
\* takes in the wait loop is at most one round (one sleep), and between
\* rounds every submit_approval call and every other running stream is able
\* to step.
C25_WaitDoesNotBlock ==
    /\ [](\A g \in StreamIds : gen[g].pc = "wait" => OthersCanStep(g))
    /\ [][\A g \in StreamIds :
             gen[g].pc = "wait" => gen'[g].waited <= gen[g].waited + 1]_vars

\* one stream is between two rounds of its wait loop while the stream of
\* another session is under way and an answer has been accepted
C25_Witness ==
    \E g \in StreamIds, h \in StreamIds :
        /\ gen[g].pc = "wait" /\ gen[g].waited = 1
        /\ gen[h].pc = "stream" /\ gen[h].session_id # gen[g].session_id
        /\ Len(gen[h].out) >= 3
        /\ http.status = 200

\* the progress events of one pass of workflow_small, in emission order
ProgressOrder ==
    << <<"extraction", "running">>, <<"extraction", "completed">>,
       <<"compliance", "running">>, <<"compliance", "completed">> >>

IsProgress(record) == record.event = "progress"

\* phase and status of the progress records stream g has yielded, in order
ProgressOn(g) ==
    LET records == SelectSeq(gen[g].out, IsProgress)
    IN  [i \in 1..Len(records) |-> <<records[i].data.phase, records[i].data.status>>]

\* C27: the progress records of a stream are, in order, a prefix of
\* (extraction, running), (extraction, completed), (compliance, running),
\* (compliance, completed), and an approval_required record comes only after
\* all four.
C27_ProgressInEmissionOrder ==
    \A g \in StreamIds :
        /\ Len(ProgressOn(g)) <= Len(ProgressOrder)
        /\ ProgressOn(g) = SubSeq(ProgressOrder, 1, Len(ProgressOn(g)))
        /\ \A i \in RecordsTagged(g, "approval_required") :
              /\ Len(ProgressOn(g)) = Len(ProgressOrder)
              /\ \A j \in RecordsTagged(g, "progress") : j < i

\* a stream has yielded the four progress records and then approval_required
C27_Witness ==
    \E g \in StreamIds :
        /\ ProgressOn(g) = ProgressOrder
        /\ RecordsTagged(g, "approval_required") # {}

\* the executors one pass of workflow_small runs up to its suspension
PassOrder ==
    <<"doc_prompt", "extractor_node", "extractor_result_node", "compliance_node",
      "compliance_result_node", "hitl_coordinator", "human_review_exec">>

IsExecutorCompleted(record) == record.event = "executor_completed"

\* the executor ids on the executor_completed records of stream g, in order
CompletedOn(g) ==
    LET records == SelectSeq(gen[g].out, IsExecutorCompleted)
    IN  [i \in 1..Len(records) |-> records[i].data.executor_id]

\* C28: once stream g has read every event its run has produced, it has
\* yielded one executor_completed record, carrying the executor's id, for each
\* executor the run has completed.
C28_ExecutorCompletedIsReported ==
    \A g \in StreamIds :
        (RunStarted(g) /\ gen[g].stream_open /\ ~wf[g].failed /\ wf[g].events = <<>>)
        => CompletedOn(g) = SubSeq(PassOrder, 1, wf[g].iterations)

(***************************************************************************)
(* SpecCompliance: ComplianceAdapter.on_compliance (workflow_one.py)       *)
(* applied to compliance texts.                                            *)
(***************************************************************************)
\* JSON values: t is the type, v the content of a scalar, items the strings
\* of a list, fields the members of an object
JNull == [t |-> "null", v |-> "", items |-> <<>>, fields |-> EmptyMap]
JBool(b) ==
    [t |-> "bool", v |-> IF b THEN "true" ELSE "false", items |-> <<>>,
     fields |-> EmptyMap]
JNum(digits) == [t |-> "num", v |-> digits, items |-> <<>>, fields |-> EmptyMap]
JStr(s) == [t |-> "str", v |-> s, items |-> <<>>, fields |-> EmptyMap]
JList(items) == [t |-> "list", v |-> "", items |-> items, fields |-> EmptyMap]
JObj(fields) == [t |-> "obj", v |-> "", items |-> <<>>, fields |-> fields]
\* a member that is not written in the text
Absent == [t |-> "absent", v |-> "", items |-> <<>>, fields |-> EmptyMap]

\* the members of an object text: key k with value x, or nothing for Absent
Member(k, x) == IF x = Absent THEN EmptyMap ELSE [key \in {k} |-> x]

\* items joined with "; "
RECURSIVE Join(_)
Join(items) ==
    IF items = <<>> THEN ""
    ELSE IF Len(items) = 1 THEN items[1]
    ELSE items[1] \o "; " \o Join(Tail(items))

\* json.dumps of a value that is not an object
Dumps(x) ==
    CASE x.t = "str" -> "'" \o x.v \o "'"
      [] x.t = "list" -> "[" \o Join(x.items) \o "]"
      [] x.t = "null" -> "null"
      [] OTHER -> x.v

\* str(x) of a parsed scalar
PyStr(x) ==
    CASE x.t = "null" -> "None"
      [] x.t = "bool" -> IF x.v = "true" THEN "True" ELSE "False"
      [] OTHER -> x.v

\* bool(x)
PyBool(x) ==
    CASE x.t = "null" -> FALSE
      [] x.t = "bool" -> x.v = "true"
      [] x.t = "num" -> x.v # "0"
      [] x.t = "str" -> x.v # ""
      [] x.t = "list" -> x.items # <<>>
      [] OTHER -> x.fields # EmptyMap

\* d.get(k, default) of a parsed object
Get(d, k, default) == IF k \in DOMAIN d.fields THEN d.fields[k] ELSE default

\* the texts a compliance agent may return: form "none" is a response
\* without text, "plain" is text that is not JSON, "json" is the text of value
NoText == [form |-> "none", raw |-> "", value |-> JNull]
PlainText(raw) == [form |-> "plain", raw |-> raw, value |-> JNull]
JsonText(value) ==
    [form |-> "json", raw |-> IF value.t = "obj" THEN "{...}" ELSE Dumps(value),
     value |-> value]

IsCompliantValues ==
    {Absent, JBool(TRUE), JBool(FALSE), JStr("false"), JNum("1"), JNum("0"), JNull}
NotesValues ==
    {Absent, JList(<<"no signature", "date missing">>), JList(<<>>),
     JStr("see page 2")}
NeedsReviewValues ==
    {Absent, JBool(TRUE), JBool(FALSE), JNull, JStr("false"), JNum("0")}
ComplianceValues ==
    {Absent, JNull, JStr("yes"), JBool(TRUE), JList(<<>>)}
      \cup {JObj(Member("is_compliant", ok) @@ Member("notes", notes)) :
               ok \in IsCompliantValues, notes \in NotesValues}
NonObjectValues ==
    {JNull, JBool(TRUE), JNum("1"), JStr("compliance"), JStr("fine"),
     JList(<<>>), JList(<<"compliance">>)}

ComplianceInputs ==
    {NoText, PlainText(""), PlainText("not json")}
      \cup {JsonText(x) : x \in NonObjectValues}
      \cup {JsonText(JObj(Member("compliance", c) @@ Member("needs_human_review", n))) :
               c \in ComplianceValues, n \in NeedsReviewValues}

\* result.agent_run_response.text or ""
TextOrEmpty(text) == IF text.form = "none" THEN PlainText("") ELSE text

\* the dict _parse_compliance_json returns from its except clause
ForcedReview(text) ==
    JObj(Member("compliance",
                JObj(Member("is_compliant", JBool(FALSE))
                       @@ Member("notes", JList(<<text.raw>>))))
           @@ Member("needs_human_review", JBool(TRUE)))

\* _parse_compliance_json: json.loads(text or "{}"), then the two defaults;
\* text that is not JSON raises in json.loads, and a value that is not an
\* object raises in the membership test, the item assignment or setdefault:
\* all of these end in the except clause
parse_compliance_json(text) ==
    IF text.form = "plain" /\ text.raw = "" THEN
        JObj(Member("compliance", JObj(EmptyMap))
               @@ Member("needs_human_review", JBool(FALSE)))
    ELSE IF text.form = "plain" THEN ForcedReview(text)
    ELSE IF text.value.t # "obj" THEN ForcedReview(text)
    ELSE LET obj == text.value
             c == IF "compliance" \in DOMAIN obj.fields THEN EmptyMap
                  ELSE Member("compliance", JObj(EmptyMap))
             n == IF "needs_human_review" \in DOMAIN obj.fields THEN EmptyMap
                  ELSE Member("needs_human_review", JBool(FALSE))
         IN  JObj(obj.fields @@ c @@ n)

\* ctx.state as on_compliance finds it
CtxState == [document_uri |-> "doc-1", extractor_text |-> ExtractedText]

\* on_compliance: the one message it sends, or the exception it raises when
\* comp["compliance"] has no .get
on_compliance(text) ==
    LET comp_text == TextOrEmpty(text)
        comp == parse_compliance_json(comp_text)
        compliance == Get(comp, "compliance", JObj(EmptyMap))
    IN  IF compliance.t # "obj"
        THEN [raised |-> TRUE, sent |-> <<>>]
        ELSE LET is_ok == PyBool(Get(compliance, "is_compliant", JBool(FALSE)))
                 needs_human == PyBool(Get(comp, "needs_human_review", JBool(FALSE)))
                 notes == Get(compliance, "notes", JList(<<>>))
                 notes_text == IF notes.t = "list" THEN Join(notes.items)
                               ELSE PyStr(notes)
             IN  IF is_ok /\ ~needs_human
                 THEN [raised |-> FALSE,
                       sent |-> <<[to |-> "save_results",
                                   approved |-> TRUE, auto |-> TRUE,
                                   compliance |-> comp]>>]
                 ELSE [raised |-> FALSE,
                       sent |-> <<[to |-> "human_review_exec",
                                   document_uri |-> CtxState.document_uri,
                                   summary |-> CtxState.extractor_text,
                                   compliance_notes |->
                                       IF notes_text = "" THEN "(no notes)"
                                       ELSE notes_text]>>]

\* the compliance agent answers with text and the adapter handles it
OnCompliance(text) ==
    /\ LET r == on_compliance(text)
       IN  compliance_exec' = [op |-> "on_compliance", text |-> text,
                               raised |-> r.raised, sent |-> r.sent]
    /\ UNCHANGED <<APPROVAL_CONTEXT, wf, cli, coord, bridgeVars, limits,
                   start_requests, small, game, ingest>>

NextCompliance == \E text \in ComplianceInputs : OnCompliance(text)

SpecCompliance == Init /\ [][NextCompliance]_vars

\* the text is a JSON object whose compliance.is_compliant is true and whose
\* needs_human_review is false or absent
SaysCompliant(text) ==
    /\ text.form = "json" /\ text.value.t = "obj"
    /\ LET compliance == Get(text.value, "compliance", Absent)
           needs == Get(text.value, "needs_human_review", Absent)
       IN  /\ compliance.t = "obj"
           /\ Get(compliance, "is_compliant", Absent) = JBool(TRUE)
           /\ needs \in {Absent, JBool(FALSE)}

\* C29: on_compliance never raises and sends exactly one message per
\* compliance text: to save_results if and only if the text is a JSON object
\* with compliance.is_compliant true and needs_human_review false or absent,
\* and otherwise a review packet to human_review_exec.
C29_OneMessagePerResult ==
    compliance_exec.op = "on_compliance"
    => /\ ~compliance_exec.raised
       /\ Len(compliance_exec.sent) = 1
       /\ compliance_exec.sent[1].to =
             IF SaysCompliant(compliance_exec.text)
             THEN "save_results" ELSE "human_review_exec"

(***************************************************************************)
(* The human decision in the workflow_small graph.                         *)
(***************************************************************************)
\* the run of run_once has an approval request that no answer was delivered for
CliRequestOpen == Len(wf[0].prepared) > Len(wf[0].answered)

\* C30: in a run of workflow_small the final node is invoked only with the
\* message handle_response sent for a delivered answer to the run's approval
\* request, so every final output follows that answer; and while the
\* approval request is unanswered the message in flight is at
\* human_review_exec or the run is suspended, never at the final node.
C30_NoOutputWithoutDecision ==
    /\ wf[0].node = "final_result_placeholder"
          => /\ Len(wf[0].answered) = 1 /\ Len(wf[0].sent) = 1
             /\ wf[0].answered[1].approval_id = ApprovalIdOf(0)
             /\ wf[0].msg = wf[0].sent[1]
    /\ (cli.pc = "returned" /\ cli.result # None)
          => /\ Len(wf[0].answered) = 1 /\ Len(wf[0].sent) = 1
             /\ wf[0].answered[1].approval_id = ApprovalIdOf(0)
             /\ cli.result = wf[0].sent[1]
    /\ CliRequestOpen => wf[0].node \in {"human_review_exec", "none"}
    /\ Len(wf[0].prepared) <= 1

\* run_once has returned the final output of a run whose approval request
\* was answered
C30_Witness ==
    /\ cli.pc = "returned" /\ cli.result # None
    /\ Len(wf[0].prepared) = 1 /\ Len(wf[0].answered) = 1

(***************************************************************************)
(* The approval cycle of workflow_small.                                   *)
(***************************************************************************)
\* the run of run_once has had its answer delivered to handle_response
CliAnswered == Len(wf[0].answered) >= 1

\* C31: a run goes round hitl_coordinator -> human_review_exec ->
\* hitl_coordinator at most once: it never raises a second approval request,
\* once its answer is delivered it is on the way to the final node or done
\* with no request outstanding, a run that returns output has raised exactly
\* one request, and a run whose answer is delivered does return.
C31_CycleTraversedOnce ==
    /\ [](/\ Len(wf[0].prepared) <= 1 /\ Len(wf[0].answered) <= 1
          /\ CliAnswered =>
                /\ wf[0].node \in {"final_result_placeholder", "none"}
                /\ wf[0].requests = EmptyMap
                /\ cli.request_info_events = <<>>
          /\ (cli.pc = "returned" /\ cli.result # None) =>
                Len(wf[0].prepared) = 1 /\ Len(wf[0].answered) = 1)
    /\ (CliAnswered ~> (cli.pc = "returned" /\ Len(wf[0].prepared) = 1))

\* run_once has returned the output of a run that raised one request and
\* received one answer
C31_Witness ==
    /\ cli.pc = "returned" /\ cli.resumes = 1
    /\ Len(wf[0].prepared) = 1 /\ Len(wf[0].answered) = 1
    /\ wf[0].node = "none" /\ wf[0].requests = EmptyMap

(***************************************************************************)
(* Correlation of answers, stream prologue and run input.                  *)
(***************************************************************************)
\* C32: a step of submit_approval that accepts a decision for request r (r
\* leaves pending_approvals) stores an answer whose approval_id is the one
\* published with r.
C32_AckRequiresPublishedApprovalId ==
    [][\A r \in DOMAIN pending_approvals :
          r \notin DOMAIN pending_approvals'
          => LET session_id == pending_approvals[r].session_id
             IN  workflow_sessions'[session_id].pending_responses[r].approval_id
                    = pending_approvals[r].approval_data.approval_id]_vars

\* the records that report on the run of a stream
RunRecordTags ==
    {"progress", "approval_required", "waiting_for_approval",
     "executor_completed", "workflow_completed"}

\* C33: the first record of every stream is connected; workflow_started
\* occurs at most once, after connected, and every progress,
\* approval_required, waiting_for_approval, executor_completed and
\* workflow_completed record of the stream comes after it.
C33_StreamPrologue ==
    \A g \in StreamIds :
        /\ gen[g].out # <<>> => gen[g].out[1].event = "connected"
        /\ Cardinality(RecordsTagged(g, "connected")) <= 1
        /\ Cardinality(RecordsTagged(g, "workflow_started")) <= 1
        /\ \A s \in RecordsTagged(g, "workflow_started") :
              \E c \in RecordsTagged(g, "connected") : c < s
        /\ \A i \in 1..Len(gen[g].out) :
              gen[g].out[i].event \in RunRecordTags
              => \E s \in RecordsTagged(g, "workflow_started") : s < i

\* a stream has yielded connected, workflow_started and then records of its run
C33_Witness ==
    \E g \in StreamIds :
        /\ RecordsTagged(g, "connected") = {1}
        /\ RecordsTagged(g, "workflow_started") = {2}
        /\ RecordsTagged(g, "progress") # {}
        /\ RecordsTagged(g, "waiting_for_approval") # {}

\* the bridge with start requests that give the optional fields too
NextInput ==
    \/ \E request \in StartRequests : start_workflow(request)
    \/ \E session_id \in SessionIds \cup {UnknownSession} :
          stream_workflow_events(session_id)
    \/ \E g \in StreamIds : GenStep(g)
    \/ \E decision \in Decisions : submit_approval(decision)

SpecInput == Init /\ [][NextInput]_vars

\* C34: the DocInput a stream hands to run_stream has the document_uri,
\* document_title and page_count of the start request of its session.
C34_RunInputIsTheStartRequest ==
    \A g \in StreamIds :
        gen[g].pc \in {"stream", "wait", "closed"}
        => LET request == start_requests[gen[g].session_id]
           IN  /\ gen[g].doc_input.document_uri = request.document_uri
               /\ gen[g].doc_input.document_title = request.document_title
               /\ gen[g].doc_input.page_count = request.page_count

(***************************************************************************)
(* SpecSmallWorkflow: small_workflow and create_agent_factory              *)
(* (workflow_one.py), one call from entry to exit.                         *)
(***************************************************************************)
\* the environment variables small_workflow reads, and the sets of them that
\* may be defined
AgentIdVariables == {"COMPLIANCE_AGENT_ID", "EXTRACTOR_AGENT_20_ID"}
Environments == SUBSET AgentIdVariables

\* document locators given to small_workflow
SmallUris == {"doc-1", "doc-2"}

\* exceptions of the calls small_workflow makes
CredentialErrors == {"CredentialUnavailableError", "ClientAuthenticationError"}
ClientErrors == {"HttpResponseError", "ServiceRequestError"}
AgentErrors == {"ResourceNotFoundError"}

\* small_workflow(document_uri) is called
SmallCall(document_uri, env) ==
    /\ small.pc = "idle"
    /\ small' = [small EXCEPT !.pc = "credential", !.document_uri = document_uri,
                              !.env = env]
    /\ UNCHANGED <<APPROVAL_CONTEXT, wf, cli, coord, bridgeVars, limits,
                   compliance_exec, start_requests, game, ingest>>

\* create_agent_factory: stack.enter_async_context(AzureCliCredential()); an
\* exception leaves create_agent_factory before `factory, close` is assigned
EnterCredential(outcome) ==
    /\ small.pc = "credential"
    /\ small' = IF outcome = "ok"
                THEN [small EXCEPT !.pc = "project_client",
                                   !.stack = @ \cup {"credential"}]
                ELSE [small EXCEPT !.pc = "except", !.error = outcome]
    /\ UNCHANGED <<APPROVAL_CONTEXT, wf, cli, coord, bridgeVars, limits,
                   compliance_exec, start_requests, game, ingest>>

\* create_agent_factory: stack.enter_async_context(AIProjectClient(...)), then
\* `return factory, close`, which binds close in small_workflow
EnterProjectClient(outcome) ==
    /\ small.pc = "project_client"
    /\ small' = IF outcome = "ok"
                THEN [small EXCEPT !.pc = "compliance_agent",
                                   !.stack = @ \cup {"project_client"},
                                   !.close_bound = TRUE]
                ELSE [small EXCEPT !.pc = "except", !.error = outcome]
    /\ UNCHANGED <<APPROVAL_CONTEXT, wf, cli, coord, bridgeVars, limits,
                   compliance_exec, start_requests, game, ingest>>

\* await factory(agent_id=os.environ[variable], ...): KeyError when the
\* variable is not defined, otherwise the agent is entered on the stack
CallFactory(pc, variable, agent, next, outcome) ==
    /\ small.pc = pc
    /\ small' = IF variable \notin small.env
                THEN [small EXCEPT !.pc = "except", !.error = "KeyError"]
                ELSE IF outcome = "ok"
                THEN [small EXCEPT !.pc = next, !.stack = @ \cup {agent}]
                ELSE [small EXCEPT !.pc = "except", !.error = outcome]
    /\ UNCHANGED <<APPROVAL_CONTEXT, wf, cli, coord, bridgeVars, limits,
                   compliance_exec, start_requests, game, ingest>>

CreateComplianceAgent(outcome) ==
    CallFactory("compliance_agent", "COMPLIANCE_AGENT_ID", "compliance_agent",
                "extractor_agent_20", outcome)

CreateExtractorAgent(outcome) ==
    CallFactory("extractor_agent_20", "EXTRACTOR_AGENT_20_ID", "extractor_agent_20",
                "build", outcome)

\* the executors are built: ExtractorToCompliance is not defined in
\* workflow_one.py nor imported, so the statement raises NameError
BuildExecutors ==
    /\ small.pc = "build"
    /\ small' = [small EXCEPT !.pc = "except", !.error = "NameError"]
    /\ UNCHANGED <<APPROVAL_CONTEXT, wf, cli, coord, bridgeVars, limits,
                   compliance_exec, start_requests, game, ingest>>

\* except Exception as e: raise RuntimeError(...) from e
ExceptClause ==
    /\ small.pc = "except"
    /\ small' = [small EXCEPT !.pc = "finally", !.error = "RuntimeError",
                              !.message = "Error in small_workflow: " \o small.error]
    /\ UNCHANGED <<APPROVAL_CONTEXT, wf, cli, coord, bridgeVars, limits,
                   compliance_exec, start_requests, game, ingest>>

\* finally: await close(); when close was never bound the name lookup raises
\* UnboundLocalError, which replaces the exception in flight
FinallyClause ==
    /\ small.pc = "finally"
    /\ small' = IF small.close_bound
                THEN [small EXCEPT !.pc = "done", !.stack = {}, !.closes = @ + 1,
                                   !.surfaced = small.error]
                ELSE [small EXCEPT !.pc = "done", !.surfaced = "UnboundLocalError"]
    /\ UNCHANGED <<APPROVAL_CONTEXT, wf, cli, coord, bridgeVars, limits,
                   compliance_exec, start_requests, game, ingest>>

NextSmallWorkflow ==
    \/ \E document_uri \in SmallUris, env \in Environments :
          SmallCall(document_uri, env)
    \/ \E outcome \in {"ok"} \cup CredentialErrors : EnterCredential(outcome)
    \/ \E outcome \in {"ok"} \cup ClientErrors : EnterProjectClient(outcome)
    \/ \E outcome \in {"ok"} \cup AgentErrors : CreateComplianceAgent(outcome)
    \/ \E outcome \in {"ok"} \cup AgentErrors : CreateExtractorAgent(outcome)
    \/ BuildExecutors
    \/ ExceptClause
    \/ FinallyClause

SpecSmallWorkflow == Init /\ [][NextSmallWorkflow]_vars

\* C35: when small_workflow has exited, close() was called exactly once,
\* nothing entered on the stack is left open, and a failure reached the
\* caller as RuntimeError.
C35_ClosesOnceAndRaisesRuntimeError ==
    small.pc = "done"
    => /\ small.closes = 1
       /\ small.stack = {}
       /\ small.surfaced = "RuntimeError"

(***************************************************************************)
(* SpecGame: the handlers of TurnManager (hitl.py), each message delivered *)
(* to the executor its type addresses.                                     *)
(***************************************************************************)
\* human replies the game sees before it stops being driven
MaxTurns == 3

\* texts of the agent's reply: none, or JSON with a guess
AgentTexts == {"", "{guess: 5}"}

\* what the human types
HumanReplies == {None, "higher", "lower", "Correct", "correct", "exit", " EXIT "}

\* (feedback.data or "").strip().lower()
NormalisedReply(data) ==
    CASE data = None -> ""
      [] data = "Correct" -> "correct"
      [] data = " EXIT " -> "exit"
      [] OTHER -> data

\* TurnManager.start: asks the agent for its first guess
GameStart ==
    /\ game.pc = "idle"
    /\ game' = [game EXCEPT !.pc = "agent", !.agent_requests = @ + 1]
    /\ UNCHANGED <<APPROVAL_CONTEXT, wf, cli, coord, bridgeVars, limits,
                   compliance_exec, start_requests, small, ingest>>

\* the agent replies and on_agent_response runs: with text it evaluates
\* GuessOutput, a name hitl.py neither defines nor imports (NameError);
\* without text it sends a HumanFeedbackRequest with guess None
on_agent_response(text) ==
    /\ game.pc = "agent"
    /\ game' = IF text # ""
               THEN [game EXCEPT !.pc = "failed"]
               ELSE [game EXCEPT !.pc = "human", !.guess = <<>>,
                                 !.feedback_requests = @ + 1]
    /\ UNCHANGED <<APPROVAL_CONTEXT, wf, cli, coord, bridgeVars, limits,
                   compliance_exec, start_requests, small, ingest>>

\* the human answers the request and on_human_feedback runs: "correct" yields
\* the output, every other reply is sent to the agent as feedback
on_human_feedback(data) ==
    /\ game.pc = "human"
    /\ Len(game.replies) < MaxTurns
    /\ LET reply == NormalisedReply(data)
           seen == [game EXCEPT !.replies = Append(@, reply),
                                !.exited = @ \/ reply = "exit",
                                !.at_exit = IF ~game.exited /\ reply = "exit"
                                            THEN <<game.agent_requests,
                                                   game.feedback_requests>>
                                            ELSE @]
       IN  game' = IF reply = "correct"
                   THEN [seen EXCEPT !.pc = "done",
                                     !.output = "Guessed correctly: None"]
                   ELSE [seen EXCEPT !.pc = "agent", !.agent_requests = @ + 1]
    /\ UNCHANGED <<APPROVAL_CONTEXT, wf, cli, coord, bridgeVars, limits,
                   compliance_exec, start_requests, small, ingest>>

NextGame ==
    \/ GameStart
    \/ \E text \in AgentTexts : on_agent_response(text)
    \/ \E data \in HumanReplies : on_human_feedback(data)

SpecGame == Init /\ [][NextGame]_vars

\* C38: once the human has replied exit, no further request is sent to the
\* agent and no further human-feedback request is raised.
C38_ExitQuits ==
    game.exited
    => /\ game.agent_requests = game.at_exit[1]
       /\ game.feedback_requests = game.at_exit[2]

(***************************************************************************)
(* SpecIngestion: invocations of process_recent_blobs (ingestion.py) on    *)
(* one day, as the cron job and manual runs start them: each is its own    *)
(* process, and the file system and the container are what they share.     *)
(***************************************************************************)
\* the blob is overwritten in the container: a new etag
BlobModified(name) ==
    /\ ingest.etag[name] < MaxEtag
    /\ ingest' = [ingest EXCEPT !.etag[name] = @ + 1]
    /\ UNCHANGED <<APPROVAL_CONTEXT, wf, cli, coord, bridgeVars, limits,
                   compliance_exec, start_requests, small, game>>

\* make_tracker_path up to os.listdir: the run directories that exist now
ListRuns(i) ==
    /\ ingest.inv[i].pc = "idle"
    /\ ingest' = [ingest EXCEPT !.inv[i].pc = "listed",
                                !.inv[i].runs = ingest.dirs,
                                !.inv[i].earlier = ingest.recorded]
    /\ UNCHANGED <<APPROVAL_CONTEXT, wf, cli, coord, bridgeVars, limits,
                   compliance_exec, start_requests, small, game>>

\* next_run of make_tracker_path
next_run(runs) ==
    IF runs # {}
    THEN LET last_run == CHOOSE n \in {RunNumber(d) : d \in runs} :
                             \A d \in runs : RunNumber(d) <= n
         IN  RunNames[last_run + 1]
    ELSE "run_01"

\* the rest of make_tracker_path: os.makedirs(run_dir, exist_ok=True)
MakeRunDir(i) ==
    /\ ingest.inv[i].pc = "listed"
    /\ LET run_dir == next_run(ingest.inv[i].runs)
       IN  ingest' = [ingest EXCEPT !.dirs = @ \cup {run_dir},
                                    !.inv[i].pc = "made",
                                    !.inv[i].tracker_path = run_dir]
    /\ UNCHANGED <<APPROVAL_CONTEXT, wf, cli, coord, bridgeVars, limits,
                   compliance_exec, start_requests, small, game>>

\* load_tracker: the file's content if it exists, else {}
load_tracker(file_path) ==
    IF file_path \in DOMAIN ingest.files THEN ingest.files[file_path]
    ELSE EmptyTracker

LoadTracker(i) ==
    /\ ingest.inv[i].pc = "made"
    /\ ingest' = [ingest EXCEPT
                    !.inv[i].pc = "loaded",
                    !.inv[i].tracker = load_tracker(ingest.inv[i].tracker_path)]
    /\ UNCHANGED <<APPROVAL_CONTEXT, wf, cli, coord, bridgeVars, limits,
                   compliance_exec, start_requests, small, game>>

\* the loop of process_recent_blobs over the recent blobs; get_pdf_page_count
\* raises for the blobs in failing
ProcessBlobs(i, failing) ==
    /\ ingest.inv[i].pc = "loaded"
    /\ LET tracker == ingest.inv[i].tracker
           skipped == {name \in list_recent_blobs :
                          tracker[name].etag = ingest.etag[name]}
           entry(name) ==
               IF name \in skipped THEN tracker[name]
               ELSE IF name \in failing THEN NoEntry
               ELSE [etag |-> ingest.etag[name],
                     page_count |-> PageCountOf(ingest.etag[name]),
                     processed_at |-> i]
       IN  ingest' = [ingest EXCEPT
                        !.inv[i].pc = "processed",
                        !.inv[i].seen = [name \in list_recent_blobs |->
                                            ingest.etag[name]],
                        !.inv[i].counted = list_recent_blobs \ skipped,
                        !.inv[i].new_tracker = [name \in list_recent_blobs |->
                                                   entry(name)]]
    /\ UNCHANGED <<APPROVAL_CONTEXT, wf, cli, coord, bridgeVars, limits,
                   compliance_exec, start_requests, small, game>>

\* save_tracker(tracker_path, new_tracker)
SaveTracker(i) ==
    /\ ingest.inv[i].pc = "processed"
    /\ LET new_tracker == ingest.inv[i].new_tracker
       IN  ingest' = [ingest EXCEPT
                        !.inv[i].pc = "done",
                        !.files = Put(@, ingest.inv[i].tracker_path, new_tracker),
                        !.recorded = [name \in list_recent_blobs |->
                                         IF new_tracker[name] # NoEntry
                                         THEN new_tracker[name] ELSE @[name]]]
    /\ UNCHANGED <<APPROVAL_CONTEXT, wf, cli, coord, bridgeVars, limits,
                   compliance_exec, start_requests, small, game>>

NextIngestion ==
    \/ \E name \in Container : BlobModified(name)
    \/ \E i \in Invocations : ListRuns(i)
    \/ \E i \in Invocations : MakeRunDir(i)
    \/ \E i \in Invocations : LoadTracker(i)
    \/ \E i \in Invocations, failing \in SUBSET list_recent_blobs :
           ProcessBlobs(i, failing)
    \/ \E i \in Invocations : SaveTracker(i)

SpecIngestion == Init /\ [][NextIngestion]_vars

\* the invocation has gone through its loop over the blobs
Looped(i) == ingest.inv[i].pc \in {"processed", "done"}

\* an invocation that had finished before this one began recorded the blob
\* with the etag this one saw
RecordedUnchanged(i, name) ==
    /\ ingest.inv[i].earlier[name] # NoEntry
    /\ ingest.inv[i].earlier[name].etag = ingest.inv[i].seen[name]

\* C36: a blob an earlier invocation recorded and whose etag has not changed
\* is skipped by a later invocation: its pages are not counted again and its
\* earlier tracker entry is carried over unchanged.
C36_UnchangedBlobIsSkipped ==
    \A i \in Invocations, name \in list_recent_blobs :
        Looped(i) /\ RecordedUnchanged(i, name)
        => /\ name \notin ingest.inv[i].counted
           /\ ingest.inv[i].new_tracker[name] = ingest.inv[i].earlier[name]

\* the invocation has its tracker path
HasPath(i) == ingest.inv[i].pc \notin {"idle", "listed"}

\* C37: no two invocations of the same day have the same tracker path.
C37_TrackerPathsDistinct ==
    \A i, j \in Invocations :
        i # j /\ HasPath(i) /\ HasPath(j)
        => ingest.inv[i].tracker_path # ingest.inv[j].tracker_path

====
